---- MODULE Spec2Model ----
(***************************************************************************)
(* The recruitment dispatcher of src/orchestrator.py: a router that sends  *)
(* a candidate status update to the assessment or the interview agent, the *)
(* three tools the agents call, and the orchestrate pipeline.              *)
(*                                                                         *)
(* A Python str is a sequence of one-character strings, so that lower(),   *)
(* strip(), slicing, concatenation and the "in" substring test are         *)
(* computed character by character.  A Python dict is the sequence of its  *)
(* <<key, value>> pairs in insertion order.                                *)
(***************************************************************************)
EXTENDS Integers, Sequences, FiniteSets, TLC

VARIABLES
    TEST_LINKS,          \* module global: role -> assessment link
    JOB_DESCRIPTIONS,    \* module global: job id -> [title, description]
    INTERVIEW_TIPS_DB,   \* module global: keyword -> tip
    environ,             \* os.environ's ANTHROPIC_API_KEY entry
    pc,                  \* position of the orchestrate invocation
    args,                \* the arguments of the orchestrate invocation
    state,               \* the AgentState dict of the invocation
    next_agent,          \* orchestrate's local next_agent
    jd_snippet,          \* interview_agent's local jd_snippet
    claude,              \* the external request of generate_prep_tip
    ret,                 \* what orchestrate returned to its caller
    runs,                \* how often the router and each agent ran in the invocation
    call,                \* a direct call of one tool or of the router
    result,              \* what the direct call returned
    frames,              \* the locals of each of several invocations run in threads
    heap,                \* the AgentState dicts of those invocations
    history              \* the successive direct calls of generate_prep_tip

vars == <<TEST_LINKS, JOB_DESCRIPTIONS, INTERVIEW_TIPS_DB, environ, pc, args,
          state, next_agent, jd_snippet, claude, ret, runs, call, result, frames,
          heap, history>>

tables == <<TEST_LINKS, JOB_DESCRIPTIONS, INTERVIEW_TIPS_DB>>

orch_vars == <<pc, args, state, next_agent, jd_snippet, claude, ret, runs>>

tool_vars == <<call, result>>

thread_vars == <<frames, heap>>

(***************************************************************************)
(* Python str operations                                                   *)
(***************************************************************************)
ASCII_UPPERCASE ==
    <<"A","B","C","D","E","F","G","H","I","J","K","L","M","N","O","P","Q","R","S","T","U","V",
      "W","X","Y","Z">>

ASCII_LOWERCASE ==
    <<"a","b","c","d","e","f","g","h","i","j","k","l","m","n","o","p","q","r","s","t","u","v",
      "w","x","y","z">>

WHITESPACE == {" ", "\n", "\t", "\r"}

\* str.lower() on one character
lower_char(c) ==
    IF \E i \in 1..Len(ASCII_UPPERCASE) : ASCII_UPPERCASE[i] = c
    THEN ASCII_LOWERCASE[CHOOSE i \in 1..Len(ASCII_UPPERCASE) : ASCII_UPPERCASE[i] = c]
    ELSE c

\* str.lower()
lower(s) == [i \in 1..Len(s) |-> lower_char(s[i])]

\* str.strip(): drop the leading and the trailing whitespace
RECURSIVE lstrip(_)
lstrip(s) == IF s # << >> /\ Head(s) \in WHITESPACE THEN lstrip(Tail(s)) ELSE s

RECURSIVE rstrip(_)
rstrip(s) ==
    IF s # << >> /\ s[Len(s)] \in WHITESPACE THEN rstrip(SubSeq(s, 1, Len(s) - 1)) ELSE s

strip(s) == rstrip(lstrip(s))

\* The slice s[:n]
slice_to(s, n) == SubSeq(s, 1, IF Len(s) < n THEN Len(s) ELSE n)

\* The substring test "needle in hay"
contains(hay, needle) ==
    \E h \in {hay} :
        \E i \in 0..(Len(h) - Len(needle)) : SubSeq(h, i + 1, i + Len(needle)) = needle

(***************************************************************************)
(* Python dict operations on a sequence of <<key, value>> pairs            *)
(***************************************************************************)
dict_has(d, k) == \E i \in 1..Len(d) : d[i][1] = k

dict_item(d, k) == d[CHOOSE i \in 1..Len(d) : d[i][1] = k][2]

dict_get(d, k, default) == IF dict_has(d, k) THEN dict_item(d, k) ELSE default

(***************************************************************************)
(* DATA (inline)                                                           *)
(***************************************************************************)
TITLE_PYTHON == 
    <<"P","y","t","h","o","n"," ","D","e","v","e","l","o","p","e","r">>

TITLE_DATA ==
    <<"D","a","t","a"," ","A","n","a","l","y","s","t">>

TITLE_FRONTEND ==
    <<"F","r","o","n","t","e","n","d"," ","D","e","v","e","l","o","p","e","r">>

TITLE_DEVOPS ==
    <<"D","e","v","O","p","s"," ","E","n","g","i","n","e","e","r">>

TITLE_PRODUCT ==
    <<"P","r","o","d","u","c","t"," ","M","a","n","a","g","e","r">>

LINK_PYTHON ==
    <<"h","t","t","p","s",":","/","/","a","s","s","e","s","s",".","e","x","a","m","p","l","e",
      ".","c","o","m","/","p","y","t","h","o","n">>

LINK_DATA ==
    <<"h","t","t","p","s",":","/","/","a","s","s","e","s","s",".","e","x","a","m","p","l","e",
      ".","c","o","m","/","d","a","t","a">>

LINK_FRONTEND ==
    <<"h","t","t","p","s",":","/","/","a","s","s","e","s","s",".","e","x","a","m","p","l","e",
      ".","c","o","m","/","f","r","o","n","t","e","n","d">>

LINK_DEVOPS ==
    <<"h","t","t","p","s",":","/","/","a","s","s","e","s","s",".","e","x","a","m","p","l","e",
      ".","c","o","m","/","d","e","v","o","p","s">>

LINK_PRODUCT ==
    <<"h","t","t","p","s",":","/","/","a","s","s","e","s","s",".","e","x","a","m","p","l","e",
      ".","c","o","m","/","p","r","o","d","u","c","t">>

TEST_LINKS_DATA ==
    << <<TITLE_PYTHON, LINK_PYTHON>>, <<TITLE_DATA, LINK_DATA>>,
       <<TITLE_FRONTEND, LINK_FRONTEND>>, <<TITLE_DEVOPS, LINK_DEVOPS>>,
       <<TITLE_PRODUCT, LINK_PRODUCT>> >>

J123 ==
    <<"J","1","2","3">>

J456 ==
    <<"J","4","5","6">>

J789 ==
    <<"J","7","8","9">>

J101 ==
    <<"J","1","0","1">>

DESCRIPTION_J123 ==
    <<"P","y","t","h","o","n"," ","D","e","v","e","l","o","p","e","r"," ","r","o","l","e"," ",
      "r","e","q","u","i","r","i","n","g"," ","F","a","s","t","A","P","I",","," ","a","s","y",
      "n","c"," ","p","r","o","g","r","a","m","m","i","n","g",","," ","R","E","S","T"," ","A",
      "P","I","s",","," ","P","o","s","t","g","r","e","S","Q","L",","," ","a","n","d"," ","D",
      "o","c","k","e","r","."," ","M","u","s","t"," ","h","a","v","e"," ","3","+"," ","y","e",
      "a","r","s"," ","e","x","p","e","r","i","e","n","c","e"," ","b","u","i","l","d","i","n",
      "g"," ","s","c","a","l","a","b","l","e"," ","b","a","c","k","e","n","d"," ","s","e","r",
      "v","i","c","e","s",".">>

DESCRIPTION_J456 ==
    <<"D","a","t","a"," ","A","n","a","l","y","s","t"," ","r","o","l","e"," ","r","e","q","u",
      "i","r","i","n","g"," ","S","Q","L",","," ","T","a","b","l","e","a","u",","," ","P","y",
      "t","h","o","n"," ","f","o","r"," ","d","a","t","a"," ","a","n","a","l","y","s","i","s",
      ","," ","s","t","a","t","i","s","t","i","c","a","l"," ","m","o","d","e","l","i","n","g",
      ","," ","a","n","d"," ","e","x","p","e","r","i","e","n","c","e"," ","w","i","t","h"," ",
      "d","a","t","a"," ","w","a","r","e","h","o","u","s","i","n","g"," ","c","o","n","c","e",
      "p","t","s",".">>

DESCRIPTION_J789 ==
    <<"F","r","o","n","t","e","n","d"," ","D","e","v","e","l","o","p","e","r"," ","r","o","l",
      "e"," ","r","e","q","u","i","r","i","n","g"," ","R","e","a","c","t",","," ","T","y","p",
      "e","S","c","r","i","p","t",","," ","m","o","d","e","r","n"," ","C","S","S"," ","f","r",
      "a","m","e","w","o","r","k","s",","," ","a","n","d"," ","e","x","p","e","r","i","e","n",
      "c","e"," ","w","i","t","h"," ","r","e","s","p","o","n","s","i","v","e"," ","d","e","s",
      "i","g","n"," ","a","n","d"," ","a","c","c","e","s","s","i","b","i","l","i","t","y"," ",
      "s","t","a","n","d","a","r","d","s",".">>

DESCRIPTION_J101 ==
    <<"D","e","v","O","p","s"," ","E","n","g","i","n","e","e","r"," ","r","o","l","e"," ","r",
      "e","q","u","i","r","i","n","g"," ","K","u","b","e","r","n","e","t","e","s",","," ","C",
      "I","/","C","D"," ","p","i","p","e","l","i","n","e","s",","," ","A","W","S","/","A","z",
      "u","r","e",","," ","T","e","r","r","a","f","o","r","m",","," ","a","n","d"," ","s","t",
      "r","o","n","g"," ","L","i","n","u","x"," ","s","y","s","t","e","m"," ","a","d","m","i",
      "n","i","s","t","r","a","t","i","o","n"," ","s","k","i","l","l","s",".">>

JOB_DESCRIPTIONS_DATA ==
    << <<J123, [title |-> TITLE_PYTHON, description |-> DESCRIPTION_J123]>>,
       <<J456, [title |-> TITLE_DATA, description |-> DESCRIPTION_J456]>>,
       <<J789, [title |-> TITLE_FRONTEND, description |-> DESCRIPTION_J789]>>,
       <<J101, [title |-> TITLE_DEVOPS, description |-> DESCRIPTION_J101]>> >>

KW_PYTHON ==
    <<"p","y","t","h","o","n">>

KW_FASTAPI ==
    <<"f","a","s","t","a","p","i">>

KW_SQL ==
    <<"s","q","l">>

KW_REACT ==
    <<"r","e","a","c","t">>

KW_KUBERNETES ==
    <<"k","u","b","e","r","n","e","t","e","s">>

TIP_PYTHON ==
    <<"R","e","v","i","e","w"," ","a","s","y","n","c","/","a","w","a","i","t"," ","p","a","t",
      "t","e","r","n","s"," ","a","n","d"," ","h","o","w"," ","t","o"," ","h","a","n","d","l",
      "e"," ","c","o","n","c","u","r","r","e","n","t"," ","r","e","q","u","e","s","t","s"," ",
      "e","f","f","i","c","i","e","n","t","l","y",".">>

TIP_FASTAPI ==
    <<"U","n","d","e","r","s","t","a","n","d"," ","d","e","p","e","n","d","e","n","c","y"," ",
      "i","n","j","e","c","t","i","o","n"," ","a","n","d"," ","h","o","w"," ","F","a","s","t",
      "A","P","I"," ","u","s","e","s"," ","P","y","d","a","n","t","i","c"," ","f","o","r"," ",
      "v","a","l","i","d","a","t","i","o","n",".">>

TIP_SQL ==
    <<"P","r","a","c","t","i","c","e"," ","c","o","m","p","l","e","x"," ","J","O","I","N"," ",
      "q","u","e","r","i","e","s"," ","a","n","d"," ","u","n","d","e","r","s","t","a","n","d",
      " ","i","n","d","e","x","i","n","g"," ","s","t","r","a","t","e","g","i","e","s"," ","f",
      "o","r"," ","p","e","r","f","o","r","m","a","n","c","e",".">>

TIP_REACT ==
    <<"B","e"," ","r","e","a","d","y"," ","t","o"," ","e","x","p","l","a","i","n"," ","t","h",
      "e"," ","v","i","r","t","u","a","l"," ","D","O","M",","," ","h","o","o","k","s"," ","l",
      "i","f","e","c","y","c","l","e",","," ","a","n","d"," ","s","t","a","t","e"," ","m","a",
      "n","a","g","e","m","e","n","t"," ","p","a","t","t","e","r","n","s",".">>

TIP_KUBERNETES ==
    <<"K","n","o","w"," ","t","h","e"," ","d","i","f","f","e","r","e","n","c","e"," ","b","e",
      "t","w","e","e","n"," ","D","e","p","l","o","y","m","e","n","t","s",","," ","S","t","a",
      "t","e","f","u","l","S","e","t","s",","," ","a","n","d"," ","D","a","e","m","o","n","S",
      "e","t","s",".">>

\* The tip corpus without an entry for react
INTERVIEW_TIPS_DB_DATA_without_react ==
    << <<KW_PYTHON, TIP_PYTHON>>, <<KW_FASTAPI, TIP_FASTAPI>>, <<KW_SQL, TIP_SQL>>,
       <<KW_KUBERNETES, TIP_KUBERNETES>> >>

INTERVIEW_TIPS_DB_DATA ==
    << <<KW_PYTHON, TIP_PYTHON>>, <<KW_FASTAPI, TIP_FASTAPI>>, <<KW_SQL, TIP_SQL>>,
       <<KW_REACT, TIP_REACT>>, <<KW_KUBERNETES, TIP_KUBERNETES>> >>

(***************************************************************************)
(* TOOLS                                                                   *)
(***************************************************************************)
GENERAL_LINK ==
    <<"h","t","t","p","s",":","/","/","a","s","s","e","s","s",".","e","x","a","m","p","l","e",
      ".","c","o","m","/","g","e","n","e","r","a","l">>

\* get_test_link without the lookup: every role gets the general link
get_test_link_always_general(role) == GENERAL_LINK

\* get_test_link(role)
get_test_link(role) == dict_get(TEST_LINKS, role, GENERAL_LINK)

ELLIPSIS ==
    <<".",".",".">>

COLON_SPACE ==
    <<":"," ">>

NO_TIPS_FOUND ==
    <<"N","o"," ","s","p","e","c","i","f","i","c"," ","t","i","p","s"," ","f","o","u","n","d",
      "."," ","G","e","n","e","r","a","l"," ","a","d","v","i","c","e",":"," ","R","e","v","i",
      "e","w"," ","t","h","e"," ","j","o","b"," ","d","e","s","c","r","i","p","t","i","o","n",
      " ","c","a","r","e","f","u","l","l","y"," ","a","n","d"," ","p","r","e","p","a","r","e",
      " ","e","x","a","m","p","l","e","s"," ","f","r","o","m"," ","y","o","u","r"," ","p","a",
      "s","t"," ","e","x","p","e","r","i","e","n","c","e",".">>

\* The slice bound of rag_search's description[:150]
SNIPPET_CHARS == 150

\* The f-string of rag_search: title, ": ", description[:150], "..."
jd_snippet_of(jd) ==
    jd.title \o COLON_SPACE \o slice_to(jd.description, SNIPPET_CHARS) \o ELLIPSIS

\* The loop of rag_search over the keyword list of generate_prep_tip
RECURSIVE search_tips_sql_before_fastapi(_, _)
search_tips_sql_before_fastapi(query_lower, i) ==
    LET order == <<1, 3, 4, 5, 2>>
    IN  IF i > Len(INTERVIEW_TIPS_DB) THEN NO_TIPS_FOUND
        ELSE IF contains(query_lower, INTERVIEW_TIPS_DB[order[i]][1])
             THEN INTERVIEW_TIPS_DB[order[i]][2]
        ELSE search_tips_sql_before_fastapi(query_lower, i + 1)

\* The loop of rag_search over INTERVIEW_TIPS_DB.items(), from item i on
RECURSIVE search_tips(_, _)
search_tips(query_lower, i) ==
    IF i > Len(INTERVIEW_TIPS_DB) THEN NO_TIPS_FOUND
    ELSE IF contains(query_lower, INTERVIEW_TIPS_DB[i][1]) THEN INTERVIEW_TIPS_DB[i][2]
    ELSE search_tips(query_lower, i + 1)

\* rag_search looking the lower-cased query up in JOB_DESCRIPTIONS
rag_search_lowered_id(query) ==
    IF dict_has(JOB_DESCRIPTIONS, lower(query))
    THEN jd_snippet_of(dict_item(JOB_DESCRIPTIONS, lower(query)))
    ELSE search_tips(lower(query), 1)

\* rag_search(query)
rag_search(query) ==
    IF dict_has(JOB_DESCRIPTIONS, query)
    THEN jd_snippet_of(dict_item(JOB_DESCRIPTIONS, query))
    ELSE search_tips(lower(query), 1)

\* An outcome of the try block of generate_prep_tip: the step that raises, or
\* a response whose first content block carries `text`
Outcome(kind, text) == [kind |-> kind, text |-> text]

NO_OUTCOME == Outcome("not_attempted", << >>)

\* os.getenv("ANTHROPIC_API_KEY"): None when unset
getenv == environ

\* Python truth of os.getenv(...): neither None nor the empty string
truthy(v) == v.set /\ v.value # << >>

\* Line 148 without the credential test
claude_attempted_ignoring_key(use_claude) == use_claude

\* The condition of line 148: use_claude and os.getenv("ANTHROPIC_API_KEY")
claude_attempted(use_claude) == use_claude /\ truthy(getenv)

\* The keyword list with sql moved to the front
KEYWORDS_sql_first == <<KW_SQL, KW_PYTHON, KW_REACT, KW_KUBERNETES, KW_FASTAPI>>

\* Line 174: the keyword list of generate_prep_tip, in its order
KEYWORDS == <<KW_PYTHON, KW_SQL, KW_REACT, KW_KUBERNETES, KW_FASTAPI>>

REVIEW_CORE_CONCEPTS ==
    <<"R","e","v","i","e","w"," ","t","h","e"," ","c","o","r","e"," ","c","o","n","c","e","p",
      "t","s"," ","f","o","r"," ","t","h","i","s"," ","r","o","l","e",".">>

GENERIC_TIP ==
    <<"S","t","u","d","y"," ","t","h","e"," ","j","o","b"," ","r","e","q","u","i","r","e","m",
      "e","n","t","s"," ","a","n","d"," ","p","r","e","p","a","r","e"," ","c","o","n","c","r",
      "e","t","e"," ","e","x","a","m","p","l","e","s"," ","f","r","o","m"," ","y","o","u","r",
      " ","e","x","p","e","r","i","e","n","c","e",".">>

\* The fallback loop run over the keys of INTERVIEW_TIPS_DB instead of keywords
RECURSIVE keyword_fallback_dict_order(_, _)
keyword_fallback_dict_order(job_description, i) ==
    IF i > Len(INTERVIEW_TIPS_DB) THEN GENERIC_TIP
    ELSE IF contains(lower(job_description), INTERVIEW_TIPS_DB[i][1])
         THEN INTERVIEW_TIPS_DB[i][2]
    ELSE keyword_fallback_dict_order(job_description, i + 1)

\* The fallback loop of generate_prep_tip over keywords, from keyword i on
RECURSIVE keyword_fallback(_, _)
keyword_fallback(job_description, i) ==
    IF i > Len(KEYWORDS) THEN GENERIC_TIP
    ELSE IF contains(lower(job_description), KEYWORDS[i])
         THEN dict_get(INTERVIEW_TIPS_DB, KEYWORDS[i], REVIEW_CORE_CONCEPTS)
    ELSE keyword_fallback(job_description, i + 1)

\* Whether the try block of generate_prep_tip returns: no step of it raised
claude_succeeds(outcome) == outcome.kind = "response"

\* An except clause that catches the request's errors only
except_catches_request_only(outcome) == outcome.kind = "request_error"

\* The except clause of generate_prep_tip: which failures it catches
except_catches(outcome) == outcome.kind \in
    {"import_error", "client_error", "request_error", "malformed_response"}

\* Line 166: tip = message.content[0].text.strip()
claude_tip(outcome) == strip(outcome.text)

\* generate_prep_tip(job_description, use_claude), with the outcome of the try
\* block when it is entered: [raised, value]
generate_prep_tip(job_description, use_claude, outcome) ==
    IF claude_attempted(use_claude) /\ claude_succeeds(outcome)
    THEN [raised |-> FALSE, value |-> claude_tip(outcome)]
    ELSE IF claude_attempted(use_claude) /\ ~except_catches(outcome)
    THEN [raised |-> TRUE, value |-> << >>]
    ELSE [raised |-> FALSE, value |-> keyword_fallback(job_description, 1)]

(***************************************************************************)
(* What the tools leave in the module globals                              *)
(***************************************************************************)
\* TEST_LINKS after a lookup that stores the general link for an unmapped role
TEST_LINKS_after_setdefault(role) ==
    IF dict_has(TEST_LINKS, role) THEN TEST_LINKS
    ELSE Append(TEST_LINKS, <<role, GENERAL_LINK>>)

\* TEST_LINKS after get_test_link(role): dict.get reads and stores nothing
TEST_LINKS_after_get_test_link(role) == TEST_LINKS

\* INTERVIEW_TIPS_DB after a fallback that removes the entry it returns
INTERVIEW_TIPS_DB_after_pop(job_description, use_claude, outcome) ==
    IF claude_attempted(use_claude) /\ ~except_catches(outcome)
    THEN INTERVIEW_TIPS_DB
    ELSE SelectSeq(INTERVIEW_TIPS_DB,
                   LAMBDA item : item[2] # keyword_fallback(job_description, 1))

\* INTERVIEW_TIPS_DB after generate_prep_tip(job_description, use_claude):
\* the fallback loop reads with dict.get and stores nothing
INTERVIEW_TIPS_DB_after_generate_prep_tip(job_description, use_claude, outcome) ==
    INTERVIEW_TIPS_DB

(***************************************************************************)
(* AGENTS                                                                  *)
(***************************************************************************)
ASSESSMENT ==
    <<"a","s","s","e","s","s","m","e","n","t">>

INTERVIEW ==
    <<"i","n","t","e","r","v","i","e","w">>

\* router_agent comparing the status as given
router_agent_case_sensitive(st) ==
    IF st.status = ASSESSMENT THEN ASSESSMENT ELSE INTERVIEW

\* router_agent(state)
router_agent(st) ==
    IF lower(st.status) = ASSESSMENT THEN ASSESSMENT ELSE INTERVIEW

ASSESSMENT_T1 ==
    <<"H","i"," ">>

ASSESSMENT_T2 ==
    <<"!","\n","\n","G","r","e","a","t"," ","n","e","w","s","!"," ","Y","o","u","'","v","e"," ",
      "b","e","e","n"," ","s","e","l","e","c","t","e","d"," ","t","o"," ","m","o","v","e"," ",
      "f","o","r","w","a","r","d"," ","w","i","t","h"," ","t","h","e"," ">>

ASSESSMENT_T3 ==
    <<" ","p","o","s","i","t","i","o","n",".","\n","\n","N","e","x","t"," ","S","t","e","p",":",
      " ","P","l","e","a","s","e"," ","c","o","m","p","l","e","t","e"," ","y","o","u","r"," ",
      "t","e","c","h","n","i","c","a","l"," ","a","s","s","e","s","s","m","e","n","t"," ","a",
      "t"," ","y","o","u","r"," ","e","a","r","l","i","e","s","t"," ","c","o","n","v","e","n",
      "i","e","n","c","e",".","\n","\n","→"," ","A","s","s","e","s","s","m","e","n","t"," ","L",
      "i","n","k",":"," ">>

ASSESSMENT_T4 ==
    <<"\n","→"," ","T","i","m","e"," ","L","i","m","i","t",":"," ","6","0"," ","m","i","n","u",
      "t","e","s","\n","→"," ","T","i","p",":"," ","R","e","v","i","e","w"," ","t","h","e"," ",
      "j","o","b"," ","d","e","s","c","r","i","p","t","i","o","n"," ","b","e","f","o","r","e",
      " ","s","t","a","r","t","i","n","g","\n","\n","B","e","s","t"," ","o","f"," ","l","u","c",
      "k","!","\n","R","e","c","r","u","i","t","E","M"," ","T","e","a","m">>

\* The message of assessment_agent with the general link in place of test_link
assessment_message_general_link(st, test_link) ==
    ASSESSMENT_T1 \o st.candidate_name \o ASSESSMENT_T2 \o st.job_title
        \o ASSESSMENT_T3 \o GENERAL_LINK \o ASSESSMENT_T4

\* The message f-string of assessment_agent
assessment_message(st, test_link) ==
    ASSESSMENT_T1 \o st.candidate_name \o ASSESSMENT_T2 \o st.job_title
        \o ASSESSMENT_T3 \o test_link \o ASSESSMENT_T4

\* assessment_agent without the write of state["output_message"]
assessment_agent_no_message(st, now) ==
    [st EXCEPT !.metadata = << <<"agent", ASSESSMENT>>,
                               <<"test_link", get_test_link(st.job_title)>>,
                               <<"timestamp", now>> >>]

\* assessment_agent(state), with the value of datetime.now().isoformat()
assessment_agent(st, now) ==
    LET test_link == get_test_link(st.job_title)
    IN  [st EXCEPT !.output_message = assessment_message(st, test_link),
                   !.metadata = << <<"agent", ASSESSMENT>>,
                                   <<"test_link", test_link>>,
                                   <<"timestamp", now>> >>]

INTERVIEW_T1 ==
    <<"H","i"," ">>

INTERVIEW_T2 ==
    <<"!","\n","\n","C","o","n","g","r","a","t","u","l","a","t","i","o","n","s"," ","o","n"," ",
      "r","e","a","c","h","i","n","g"," ","t","h","e"," ","i","n","t","e","r","v","i","e","w",
      " ","s","t","a","g","e"," ","f","o","r"," ">>

INTERVIEW_T3 ==
    <<"!","\n","\n","→"," ","Y","o","u","r"," ","i","n","t","e","r","v","i","e","w"," ","i","s",
      " ","c","o","m","i","n","g"," ","u","p"," ","s","o","o","n","."," ","H","e","r","e","'",
      "s"," ","a"," ","p","e","r","s","o","n","a","l","i","z","e","d"," ","t","i","p"," ","t",
      "o"," ","h","e","l","p"," ","y","o","u"," ","p","r","e","p","a","r","e",":","\n","\n","→",
      " ","K","e","y"," ","F","o","c","u","s"," ","A","r","e","a",":","\n">>

INTERVIEW_T4 ==
    <<"\n","\n","→"," ","R","o","l","e"," ","C","o","n","t","e","x","t",":","\n">>

INTERVIEW_T5 ==
    <<"\n","\n","R","e","m","e","m","b","e","r",":"," ","P","r","e","p","a","r","e"," ","s","p",
      "e","c","i","f","i","c"," ","e","x","a","m","p","l","e","s"," ","f","r","o","m"," ","y",
      "o","u","r"," ","e","x","p","e","r","i","e","n","c","e"," ","t","h","a","t"," ","d","e",
      "m","o","n","s","t","r","a","t","e"," ","t","h","e","s","e"," ","s","k","i","l","l","s",
      ".","\n","\n","Y","o","u","'","v","e"," ","g","o","t"," ","t","h","i","s","!","\n","R",
      "e","c","r","u","i","t","E","M"," ","T","e","a","m">>

\* The message f-string of interview_agent
interview_message(st, prep_tip, snippet) ==
    INTERVIEW_T1 \o st.candidate_name \o INTERVIEW_T2 \o st.job_title
        \o INTERVIEW_T3 \o prep_tip \o INTERVIEW_T4 \o snippet \o INTERVIEW_T5

\* interview_agent keeping the snippet in state["job_description"] as well
interview_agent_stores_snippet(st, prep_tip, snippet, now) ==
    [st EXCEPT !.job_description = snippet,
               !.output_message = interview_message(st, prep_tip, snippet),
               !.metadata = << <<"agent", INTERVIEW>>,
                               <<"prep_tip", prep_tip>>,
                               <<"timestamp", now>> >>]

\* interview_agent(state, use_claude) from line 277 on: the message and the
\* metadata, given the tip and the snippet the two tools returned
interview_agent(st, prep_tip, snippet, now) ==
    [st EXCEPT !.output_message = interview_message(st, prep_tip, snippet),
               !.metadata = << <<"agent", INTERVIEW>>,
                               <<"prep_tip", prep_tip>>,
                               <<"timestamp", now>> >>]

(***************************************************************************)
(* ORCHESTRATOR                                                            *)
(***************************************************************************)
GENERIC_TITLE ==
    <<"S","o","f","t","w","a","r","e"," ","E","n","g","i","n","e","e","r">>

GENERIC_DESCRIPTION ==
    <<"S","o","f","t","w","a","r","e"," ","e","n","g","i","n","e","e","r","i","n","g"," ","r",
      "o","l","e"," ","r","e","q","u","i","r","i","n","g"," ","t","e","c","h","n","i","c","a",
      "l"," ","e","x","p","e","r","t","i","s","e",".">>

\* Step 1 without the generic data for a job id that is not in the catalog
job_info_no_default(job_id) ==
    IF ~dict_has(JOB_DESCRIPTIONS, job_id)
    THEN [title |-> << >>, description |-> << >>]
    ELSE dict_item(JOB_DESCRIPTIONS, job_id)

\* Step 1 of orchestrate: the title and the description of job_id
job_info(job_id) ==
    IF ~dict_has(JOB_DESCRIPTIONS, job_id)
    THEN [title |-> GENERIC_TITLE, description |-> GENERIC_DESCRIPTION]
    ELSE dict_item(JOB_DESCRIPTIONS, job_id)

\* The AgentState dict orchestrate builds
initial_state(a) ==
    [job_id |-> a.job_id,
     candidate_name |-> a.candidate_name,
     candidate_email |-> a.candidate_email,
     status |-> a.status,
     job_title |-> job_info(a.job_id).title,
     job_description |-> job_info(a.job_id).description,
     output_message |-> << >>,
     metadata |-> << >>]

(***************************************************************************)
(* The inputs the model draws from                                         *)
(***************************************************************************)
CandidateNames == {
    <<"S","a","r","a","h"," ","J","o","h","n","s","o","n">>,
    <<"B","o","b">>}

CandidateEmails == {
    <<"s","a","r","a","h","@","e","x","a","m","p","l","e",".","c","o","m">>}

Statuses == {
    <<"A","s","s","e","s","s","m","e","n","t">>,
    <<"a","s","s","e","s","s","m","e","n","t">>,
    <<"A","S","S","E","S","S","M","E","N","T">>,
    << >>,
    <<"I","n","t","e","r","v","i","e","w">>,
    <<"I","N","T","E","R","V","I","E","W">>,
    <<"o","f","f","e","r">>,
    <<"a","s","s","e","s","s","m","e","n","t","s">>}

UNKNOWN ==
    <<"U","N","K","N","O","W","N">>

JobIds == {J123, J456, J789, J101, UNKNOWN,
    <<"F","a","s","t","A","P","I","-","P","y","t","h","o","n","-","7">>}

ApiKeys == {[set |-> FALSE, value |-> << >>],
            [set |-> TRUE, value |-> << >>],
            [set |-> TRUE, value |->
    <<"s","k","-","a","n","t","-","t","e","s","t">>]}

Timestamps == {
    <<"2","0","2","4","-","1","2","-","0","1","T","0","9",":","0","0",":","0","0">>,
    <<"2","0","2","4","-","1","2","-","0","1","T","0","9",":","0","0",":","0","1">>}

ResponseTexts == {
    << >>,
    <<" ","\n">>,
    <<" "," ","P","r","a","c","t","i","c","e"," ","s","y","s","t","e","m"," ","d","e","s","i",
      "g","n"," ","q","u","e","s","t","i","o","n","s",".","\n">>,
    <<"K","n","o","w"," ","S","Q","L",".">>,
    <<"R","e","v","i","e","w"," ","t","h","e"," ","c","o","r","e"," ","c","o","n","c","e","p",
      "t","s"," ","f","o","r"," ","t","h","i","s"," ","r","o","l","e",".">>}

\* What can happen before the request is sent: the import or the constructor
\* raises, or the request goes out
BeforeRequest == {"import_error", "client_error", "request"}

\* What the sent request can come back with
RequestOutcomes ==
    {Outcome("request_error", << >>), Outcome("malformed_response", << >>)}
        \cup {Outcome("response", t) : t \in ResponseTexts}

NOT_RETURNED == [returned |-> FALSE, value |-> << >>]

NO_ARGS == [candidate_name |-> << >>, candidate_email |-> << >>, status |-> << >>,
            job_id |-> << >>, use_claude |-> FALSE]

NO_CLAUDE == [requests |-> 0, in_flight |-> FALSE]

NO_RUNS == [router_agent |-> 0, assessment_agent |-> 0, interview_agent |-> 0]

NO_CALL == [fn |-> "none"]

NO_RESULT == [done |-> FALSE]

NO_FRAMES == << >>

NO_HEAP == << >>

NO_HISTORY == << >>

(***************************************************************************)
(* The invocation of orchestrate, step by step                             *)
(***************************************************************************)
\* Step 3 calling interview_agent whatever the router decided
delegate_always_interview(next) == "interview_agent"

\* Step 3: the agent orchestrate calls for the router's decision
delegate(next) == IF next = ASSESSMENT THEN "assessment_agent" ELSE "interview_agent"

\* Step 4: what the caller of orchestrate receives
returned(st) == [returned |-> TRUE, value |-> st.output_message]

Init ==
    /\ TEST_LINKS = TEST_LINKS_DATA
    /\ JOB_DESCRIPTIONS = JOB_DESCRIPTIONS_DATA
    /\ INTERVIEW_TIPS_DB = INTERVIEW_TIPS_DB_DATA
    /\ environ \in ApiKeys
    /\ pc = "idle"
    /\ args = NO_ARGS
    /\ state = initial_state(NO_ARGS)
    /\ next_agent = << >>
    /\ jd_snippet = << >>
    /\ claude = NO_CLAUDE
    /\ ret = NOT_RETURNED
    /\ runs = NO_RUNS
    /\ call = NO_CALL
    /\ result = NO_RESULT
    /\ frames = NO_FRAMES
    /\ heap = NO_HEAP
    /\ history = NO_HISTORY

\* orchestrate(...) is called: Step 1 builds the state
Orchestrate ==
    /\ pc \in {"idle", "done"}
    /\ \E candidate_name \in CandidateNames, candidate_email \in CandidateEmails,
          status \in Statuses, job_id \in JobIds, use_claude \in BOOLEAN :
          LET a == [candidate_name |-> candidate_name,
                    candidate_email |-> candidate_email,
                    status |-> status, job_id |-> job_id, use_claude |-> use_claude]
          IN  /\ args' = a
              /\ state' = initial_state(a)
    /\ next_agent' = << >>
    /\ jd_snippet' = << >>
    /\ claude' = NO_CLAUDE
    /\ ret' = NOT_RETURNED
    /\ runs' = NO_RUNS
    /\ pc' = "route"
    /\ UNCHANGED <<tables, environ, tool_vars, thread_vars, history>>

\* Step 2: next_agent = router_agent(state)
Router ==
    /\ pc = "route"
    /\ next_agent' = router_agent(state)
    /\ runs' = [runs EXCEPT !.router_agent = @ + 1]
    /\ pc' = "delegate"
    /\ UNCHANGED <<tables, environ, args, state, jd_snippet, claude, ret, tool_vars,
                   thread_vars, history>>

\* Step 3, first branch: state = assessment_agent(state)
AssessmentAgent ==
    /\ pc = "delegate"
    /\ delegate(next_agent) = "assessment_agent"
    /\ runs' = [runs EXCEPT !.assessment_agent = @ + 1]
    /\ \E now \in Timestamps : state' = assessment_agent(state, now)
    /\ TEST_LINKS' = TEST_LINKS_after_get_test_link(state.job_title)
    /\ pc' = "return"
    /\ UNCHANGED <<JOB_DESCRIPTIONS, INTERVIEW_TIPS_DB, environ, args, next_agent,
                   jd_snippet, claude, ret, tool_vars, thread_vars, history>>

\* The rest of interview_agent once generate_prep_tip has ended with `tip`:
\* an exception leaves orchestrate, a value is rendered into the message
FinishInterview(tip, snippet) ==
    IF tip.raised
    THEN /\ pc' = "raised"
         /\ state' = state
    ELSE /\ pc' = "return"
         /\ \E now \in Timestamps :
                state' = interview_agent(state, tip.value, snippet, now)

\* Step 3, second branch: interview_agent(state, use_claude) up to the request
\* of generate_prep_tip, and to its end when no request is sent
InterviewAgent ==
    /\ pc = "delegate"
    /\ delegate(next_agent) = "interview_agent"
    /\ runs' = [runs EXCEPT !.interview_agent = @ + 1]
    /\ jd_snippet' = rag_search(state.job_id)
    /\ \E before \in IF claude_attempted(args.use_claude)
                      THEN BeforeRequest ELSE {"not_attempted"} :
           IF before = "request"
           THEN /\ claude' = [requests |-> claude.requests + 1, in_flight |-> TRUE]
                /\ pc' = "claude"
                /\ state' = state
                /\ INTERVIEW_TIPS_DB' = INTERVIEW_TIPS_DB
           ELSE /\ claude' = claude
                /\ FinishInterview(
                       generate_prep_tip(state.job_description, args.use_claude,
                                         Outcome(before, << >>)),
                       jd_snippet')
                /\ INTERVIEW_TIPS_DB' = INTERVIEW_TIPS_DB_after_generate_prep_tip(
                       state.job_description, args.use_claude, Outcome(before, << >>))
    /\ UNCHANGED <<TEST_LINKS, JOB_DESCRIPTIONS, environ, args, next_agent, ret, tool_vars,
                   thread_vars, history>>

\* client.messages.create(...) returns or raises, and interview_agent runs to
\* its end
ClaudeReturns ==
    /\ pc = "claude"
    /\ \E outcome \in RequestOutcomes :
           /\ FinishInterview(
                  generate_prep_tip(state.job_description, args.use_claude, outcome),
                  jd_snippet)
           /\ INTERVIEW_TIPS_DB' = INTERVIEW_TIPS_DB_after_generate_prep_tip(
                  state.job_description, args.use_claude, outcome)
    /\ claude' = [claude EXCEPT !.in_flight = FALSE]
    /\ UNCHANGED <<TEST_LINKS, JOB_DESCRIPTIONS, environ, args, next_agent, jd_snippet,
                   ret, runs, tool_vars, thread_vars, history>>

\* Step 4: return state["output_message"]
Return ==
    /\ pc = "return"
    /\ ret' = returned(state)
    /\ pc' = "done"
    /\ UNCHANGED <<tables, environ, args, state, next_agent, jd_snippet, claude, runs,
                   tool_vars, thread_vars, history>>

Next ==
    \/ Orchestrate
    \/ Router
    \/ AssessmentAgent
    \/ InterviewAgent
    \/ ClaudeReturns
    \/ Return

Spec == Init /\ [][Next]_vars

\* One invocation of orchestrate from the initial state
FirstOrchestrate == pc = "idle" /\ Orchestrate

NextOnce ==
    \/ FirstOrchestrate
    \/ Router
    \/ AssessmentAgent
    \/ InterviewAgent
    \/ ClaudeReturns
    \/ Return

\* One invocation under the scheduling the code has: Python runs every step of
\* a started invocation, and the request sent is assumed to come back
FairSpec ==
    /\ Init
    /\ [][NextOnce]_vars
    /\ WF_vars(Router)
    /\ WF_vars(AssessmentAgent)
    /\ WF_vars(InterviewAgent)
    /\ WF_vars(ClaudeReturns)
    /\ WF_vars(Return)

(***************************************************************************)
(* The copy of the dispatcher in src/phase3_orchestration/orchestrator.py: *)
(* its own tables, tools, router, agents and orchestrate.  A character     *)
(* outside the Basic Multilingual Plane is written by its code point,      *)
(* "U+1F3AF", and is one character of the text.  No function of the copy   *)
(* assigns to its tables, which are the values of their literals.          *)
(***************************************************************************)
PHASE3_TEST_LINKS == <<
    <<
    <<"P","y","t","h","o","n"," ","D","e","v","e","l","o","p","e","r">>,
    <<"h","t","t","p","s",":","/","/","a","s","s","e","s","s",".","e","x","a","m","p","l","e",
      ".","c","o","m","/","p","y","t","h","o","n">>
    >>,
    <<
    <<"D","a","t","a"," ","A","n","a","l","y","s","t">>,
    <<"h","t","t","p","s",":","/","/","a","s","s","e","s","s",".","e","x","a","m","p","l","e",
      ".","c","o","m","/","d","a","t","a">>
    >>,
    <<
    <<"F","r","o","n","t","e","n","d"," ","D","e","v","e","l","o","p","e","r">>,
    <<"h","t","t","p","s",":","/","/","a","s","s","e","s","s",".","e","x","a","m","p","l","e",
      ".","c","o","m","/","f","r","o","n","t","e","n","d">>
    >>,
    <<
    <<"D","e","v","O","p","s"," ","E","n","g","i","n","e","e","r">>,
    <<"h","t","t","p","s",":","/","/","a","s","s","e","s","s",".","e","x","a","m","p","l","e",
      ".","c","o","m","/","d","e","v","o","p","s">>
    >>,
    <<
    <<"P","r","o","d","u","c","t"," ","M","a","n","a","g","e","r">>,
    <<"h","t","t","p","s",":","/","/","a","s","s","e","s","s",".","e","x","a","m","p","l","e",
      ".","c","o","m","/","p","r","o","d","u","c","t">>
    >> >>

PHASE3_JOB_DESCRIPTIONS == <<
    <<
    <<"J","1","2","3">>,
    [title |->
    <<"P","y","t","h","o","n"," ","D","e","v","e","l","o","p","e","r">>,
     description |->
    <<"P","y","t","h","o","n"," ","D","e","v","e","l","o","p","e","r"," ","r","o","l","e"," ",
      "r","e","q","u","i","r","i","n","g"," ","F","a","s","t","A","P","I",","," ","a","s","y",
      "n","c"," ","p","r","o","g","r","a","m","m","i","n","g",","," ","R","E","S","T"," ","A",
      "P","I","s",","," ","P","o","s","t","g","r","e","S","Q","L",","," ","a","n","d"," ","D",
      "o","c","k","e","r","."," ","M","u","s","t"," ","h","a","v","e"," ","3","+"," ","y","e",
      "a","r","s"," ","e","x","p","e","r","i","e","n","c","e"," ","b","u","i","l","d","i","n",
      "g"," ","s","c","a","l","a","b","l","e"," ","b","a","c","k","e","n","d"," ","s","e","r",
      "v","i","c","e","s",".">>
    ] >>,
    <<
    <<"J","4","5","6">>,
    [title |->
    <<"D","a","t","a"," ","A","n","a","l","y","s","t">>,
     description |->
    <<"D","a","t","a"," ","A","n","a","l","y","s","t"," ","r","o","l","e"," ","r","e","q","u",
      "i","r","i","n","g"," ","S","Q","L",","," ","T","a","b","l","e","a","u",","," ","P","y",
      "t","h","o","n"," ","f","o","r"," ","d","a","t","a"," ","a","n","a","l","y","s","i","s",
      ","," ","s","t","a","t","i","s","t","i","c","a","l"," ","m","o","d","e","l","i","n","g",
      ","," ","a","n","d"," ","e","x","p","e","r","i","e","n","c","e"," ","w","i","t","h"," ",
      "d","a","t","a"," ","w","a","r","e","h","o","u","s","i","n","g"," ","c","o","n","c","e",
      "p","t","s",".">>
    ] >>,
    <<
    <<"J","7","8","9">>,
    [title |->
    <<"F","r","o","n","t","e","n","d"," ","D","e","v","e","l","o","p","e","r">>,
     description |->
    <<"F","r","o","n","t","e","n","d"," ","D","e","v","e","l","o","p","e","r"," ","r","o","l",
      "e"," ","r","e","q","u","i","r","i","n","g"," ","R","e","a","c","t",","," ","T","y","p",
      "e","S","c","r","i","p","t",","," ","m","o","d","e","r","n"," ","C","S","S"," ","f","r",
      "a","m","e","w","o","r","k","s",","," ","a","n","d"," ","e","x","p","e","r","i","e","n",
      "c","e"," ","w","i","t","h"," ","r","e","s","p","o","n","s","i","v","e"," ","d","e","s",
      "i","g","n"," ","a","n","d"," ","a","c","c","e","s","s","i","b","i","l","i","t","y"," ",
      "s","t","a","n","d","a","r","d","s",".">>
    ] >>,
    <<
    <<"J","1","0","1">>,
    [title |->
    <<"D","e","v","O","p","s"," ","E","n","g","i","n","e","e","r">>,
     description |->
    <<"D","e","v","O","p","s"," ","E","n","g","i","n","e","e","r"," ","r","o","l","e"," ","r",
      "e","q","u","i","r","i","n","g"," ","K","u","b","e","r","n","e","t","e","s",","," ","C",
      "I","/","C","D"," ","p","i","p","e","l","i","n","e","s",","," ","A","W","S","/","A","z",
      "u","r","e",","," ","T","e","r","r","a","f","o","r","m",","," ","a","n","d"," ","s","t",
      "r","o","n","g"," ","L","i","n","u","x"," ","s","y","s","t","e","m"," ","a","d","m","i",
      "n","i","s","t","r","a","t","i","o","n"," ","s","k","i","l","l","s",".">>
    ] >> >>

PHASE3_INTERVIEW_TIPS_DB == <<
    <<
    <<"p","y","t","h","o","n">>,
    <<"R","e","v","i","e","w"," ","a","s","y","n","c","/","a","w","a","i","t"," ","p","a","t",
      "t","e","r","n","s"," ","a","n","d"," ","h","o","w"," ","t","o"," ","h","a","n","d","l",
      "e"," ","c","o","n","c","u","r","r","e","n","t"," ","r","e","q","u","e","s","t","s"," ",
      "e","f","f","i","c","i","e","n","t","l","y",".">>
    >>,
    <<
    <<"f","a","s","t","a","p","i">>,
    <<"U","n","d","e","r","s","t","a","n","d"," ","d","e","p","e","n","d","e","n","c","y"," ",
      "i","n","j","e","c","t","i","o","n"," ","a","n","d"," ","h","o","w"," ","F","a","s","t",
      "A","P","I"," ","u","s","e","s"," ","P","y","d","a","n","t","i","c"," ","f","o","r"," ",
      "v","a","l","i","d","a","t","i","o","n",".">>
    >>,
    <<
    <<"s","q","l">>,
    <<"P","r","a","c","t","i","c","e"," ","c","o","m","p","l","e","x"," ","J","O","I","N"," ",
      "q","u","e","r","i","e","s"," ","a","n","d"," ","u","n","d","e","r","s","t","a","n","d",
      " ","i","n","d","e","x","i","n","g"," ","s","t","r","a","t","e","g","i","e","s"," ","f",
      "o","r"," ","p","e","r","f","o","r","m","a","n","c","e",".">>
    >>,
    <<
    <<"r","e","a","c","t">>,
    <<"B","e"," ","r","e","a","d","y"," ","t","o"," ","e","x","p","l","a","i","n"," ","t","h",
      "e"," ","v","i","r","t","u","a","l"," ","D","O","M",","," ","h","o","o","k","s"," ","l",
      "i","f","e","c","y","c","l","e",","," ","a","n","d"," ","s","t","a","t","e"," ","m","a",
      "n","a","g","e","m","e","n","t"," ","p","a","t","t","e","r","n","s",".">>
    >>,
    <<
    <<"k","u","b","e","r","n","e","t","e","s">>,
    <<"K","n","o","w"," ","t","h","e"," ","d","i","f","f","e","r","e","n","c","e"," ","b","e",
      "t","w","e","e","n"," ","D","e","p","l","o","y","m","e","n","t","s",","," ","S","t","a",
      "t","e","f","u","l","S","e","t","s",","," ","a","n","d"," ","D","a","e","m","o","n","S",
      "e","t","s",".">>
    >> >>

PHASE3_ASSESSMENT_T1 ==
    <<"H","i"," ">>

PHASE3_ASSESSMENT_T2 ==
    <<"!"," ","U+1F3AF","\n","\n","G","r","e","a","t"," ","n","e","w","s","!"," ","Y","o","u",
      "'","v","e"," ","b","e","e","n"," ","s","e","l","e","c","t","e","d"," ","t","o"," ","m",
      "o","v","e"," ","f","o","r","w","a","r","d"," ","w","i","t","h"," ","t","h","e"," ">>

PHASE3_ASSESSMENT_T3 ==
    <<" ","p","o","s","i","t","i","o","n",".","\n","\n","N","e","x","t"," ","S","t","e","p",":",
      " ","P","l","e","a","s","e"," ","c","o","m","p","l","e","t","e"," ","y","o","u","r"," ",
      "t","e","c","h","n","i","c","a","l"," ","a","s","s","e","s","s","m","e","n","t"," ","a",
      "t"," ","y","o","u","r"," ","e","a","r","l","i","e","s","t"," ","c","o","n","v","e","n",
      "i","e","n","c","e",".","\n","\n","U+1F4DD"," ","A","s","s","e","s","s","m","e","n","t",
      " ","L","i","n","k",":"," ">>

PHASE3_ASSESSMENT_T4 ==
    <<"\n","⏰"," ","T","i","m","e"," ","L","i","m","i","t",":"," ","6","0"," ","m","i","n","u",
      "t","e","s","\n","U+1F4A1"," ","T","i","p",":"," ","R","e","v","i","e","w"," ","t","h",
      "e"," ","j","o","b"," ","d","e","s","c","r","i","p","t","i","o","n"," ","b","e","f","o",
      "r","e"," ","s","t","a","r","t","i","n","g","\n","\n","B","e","s","t"," ","o","f"," ","l",
      "u","c","k","!","\n","R","e","c","r","u","i","t","E","M"," ","T","e","a","m">>

PHASE3_INTERVIEW_T1 ==
    <<"H","i"," ">>

PHASE3_INTERVIEW_T2 ==
    <<"!"," ","U+1F31F","\n","\n","C","o","n","g","r","a","t","u","l","a","t","i","o","n","s",
      " ","o","n"," ","r","e","a","c","h","i","n","g"," ","t","h","e"," ","i","n","t","e","r",
      "v","i","e","w"," ","s","t","a","g","e"," ","f","o","r"," ">>

PHASE3_INTERVIEW_T3 ==
    <<"!","\n","\n","U+1F4C5"," ","Y","o","u","r"," ","i","n","t","e","r","v","i","e","w"," ",
      "i","s"," ","c","o","m","i","n","g"," ","u","p"," ","s","o","o","n","."," ","H","e","r",
      "e","'","s"," ","a"," ","p","e","r","s","o","n","a","l","i","z","e","d"," ","t","i","p",
      " ","t","o"," ","h","e","l","p"," ","y","o","u"," ","p","r","e","p","a","r","e",":","\n",
      "\n","U+1F4A1"," ","K","e","y"," ","F","o","c","u","s"," ","A","r","e","a",":","\n">>

PHASE3_INTERVIEW_T4 ==
    <<"\n","\n","U+1F4CC"," ","R","o","l","e"," ","C","o","n","t","e","x","t",":","\n">>

PHASE3_INTERVIEW_T5 ==
    <<"\n","\n","R","e","m","e","m","b","e","r",":"," ","P","r","e","p","a","r","e"," ","s","p",
      "e","c","i","f","i","c"," ","e","x","a","m","p","l","e","s"," ","f","r","o","m"," ","y",
      "o","u","r"," ","e","x","p","e","r","i","e","n","c","e"," ","t","h","a","t"," ","d","e",
      "m","o","n","s","t","r","a","t","e"," ","t","h","e","s","e"," ","s","k","i","l","l","s",
      ".","\n","\n","Y","o","u","'","v","e"," ","g","o","t"," ","t","h","i","s","!","\n","R",
      "e","c","r","u","i","t","E","M"," ","T","e","a","m">>
PHASE3_GENERAL_LINK ==
    <<"h","t","t","p","s",":","/","/","a","s","s","e","s","s",".","e","x","a","m","p","l","e",
      ".","c","o","m","/","g","e","n","e","r","a","l">>

\* get_test_link(role) of the copy
phase3_get_test_link(role) == dict_get(PHASE3_TEST_LINKS, role, PHASE3_GENERAL_LINK)

PHASE3_ELLIPSIS ==
    <<".",".",".">>

PHASE3_COLON_SPACE ==
    <<":"," ">>

PHASE3_SNIPPET_CHARS == 150

PHASE3_NO_TIPS_FOUND ==
    <<"N","o"," ","s","p","e","c","i","f","i","c"," ","t","i","p","s"," ","f","o","u","n","d",
      "."," ","G","e","n","e","r","a","l"," ","a","d","v","i","c","e",":"," ","R","e","v","i",
      "e","w"," ","t","h","e"," ","j","o","b"," ","d","e","s","c","r","i","p","t","i","o","n",
      " ","c","a","r","e","f","u","l","l","y"," ","a","n","d"," ","p","r","e","p","a","r","e",
      " ","e","x","a","m","p","l","e","s"," ","f","r","o","m"," ","y","o","u","r"," ","p","a",
      "s","t"," ","e","x","p","e","r","i","e","n","c","e",".">>

\* The loop of the copy's rag_search over INTERVIEW_TIPS_DB.items(), from item i on
RECURSIVE phase3_search_tips(_, _)
phase3_search_tips(query_lower, i) ==
    IF i > Len(PHASE3_INTERVIEW_TIPS_DB) THEN PHASE3_NO_TIPS_FOUND
    ELSE IF contains(query_lower, PHASE3_INTERVIEW_TIPS_DB[i][1])
         THEN PHASE3_INTERVIEW_TIPS_DB[i][2]
    ELSE phase3_search_tips(query_lower, i + 1)

\* rag_search(query) of the copy
phase3_rag_search(query) ==
    IF dict_has(PHASE3_JOB_DESCRIPTIONS, query)
    THEN LET jd == dict_item(PHASE3_JOB_DESCRIPTIONS, query)
         IN  jd.title \o PHASE3_COLON_SPACE \o slice_to(jd.description, PHASE3_SNIPPET_CHARS)
                 \o PHASE3_ELLIPSIS
    ELSE phase3_search_tips(lower(query), 1)

PHASE3_KEYWORDS == <<
    <<"p","y","t","h","o","n">>,
    <<"s","q","l">>,
    <<"r","e","a","c","t">>,
    <<"k","u","b","e","r","n","e","t","e","s">>,
    <<"f","a","s","t","a","p","i">> >>

PHASE3_REVIEW_CORE_CONCEPTS ==
    <<"R","e","v","i","e","w"," ","t","h","e"," ","c","o","r","e"," ","c","o","n","c","e","p",
      "t","s"," ","f","o","r"," ","t","h","i","s"," ","r","o","l","e",".">>

PHASE3_GENERIC_TIP ==
    <<"S","t","u","d","y"," ","t","h","e"," ","j","o","b"," ","r","e","q","u","i","r","e","m",
      "e","n","t","s"," ","a","n","d"," ","p","r","e","p","a","r","e"," ","c","o","n","c","r",
      "e","t","e"," ","e","x","a","m","p","l","e","s"," ","f","r","o","m"," ","y","o","u","r",
      " ","e","x","p","e","r","i","e","n","c","e",".">>

\* The fallback loop of the copy's generate_prep_tip, from keyword i on
RECURSIVE phase3_keyword_fallback(_, _)
phase3_keyword_fallback(job_description, i) ==
    IF i > Len(PHASE3_KEYWORDS) THEN PHASE3_GENERIC_TIP
    ELSE IF contains(lower(job_description), PHASE3_KEYWORDS[i])
         THEN dict_get(PHASE3_INTERVIEW_TIPS_DB, PHASE3_KEYWORDS[i],
                       PHASE3_REVIEW_CORE_CONCEPTS)
    ELSE phase3_keyword_fallback(job_description, i + 1)

\* generate_prep_tip(job_description, use_claude) of the copy, with the outcome
\* of the try block when it is entered: [raised, value]
phase3_generate_prep_tip(job_description, use_claude, outcome) ==
    IF use_claude /\ truthy(getenv) /\ outcome.kind = "response"
    THEN [raised |-> FALSE, value |-> strip(outcome.text)]
    ELSE [raised |-> FALSE, value |-> phase3_keyword_fallback(job_description, 1)]

PHASE3_ASSESSMENT ==
    <<"a","s","s","e","s","s","m","e","n","t">>

PHASE3_INTERVIEW ==
    <<"i","n","t","e","r","v","i","e","w">>

\* The copy's router_agent comparing the status as given
phase3_router_agent_case_sensitive(st) ==
    IF st.status = PHASE3_ASSESSMENT THEN PHASE3_ASSESSMENT ELSE PHASE3_INTERVIEW

\* router_agent(state) of the copy
phase3_router_agent(st) ==
    IF lower(st.status) = PHASE3_ASSESSMENT THEN PHASE3_ASSESSMENT ELSE PHASE3_INTERVIEW

\* assessment_agent(state) of the copy, with the value of datetime.now().isoformat()
phase3_assessment_agent(st, now) ==
    LET test_link == phase3_get_test_link(st.job_title)
    IN  [st EXCEPT !.output_message =
                       PHASE3_ASSESSMENT_T1 \o st.candidate_name \o PHASE3_ASSESSMENT_T2
                           \o st.job_title \o PHASE3_ASSESSMENT_T3 \o test_link
                           \o PHASE3_ASSESSMENT_T4,
                   !.metadata = << <<"agent", PHASE3_ASSESSMENT>>,
                                   <<"test_link", test_link>>,
                                   <<"timestamp", now>> >>]

\* interview_agent(state, use_claude) of the copy from the message on, given
\* the tip and the snippet its two tools returned
phase3_interview_agent(st, prep_tip, snippet, now) ==
    [st EXCEPT !.output_message =
                   PHASE3_INTERVIEW_T1 \o st.candidate_name \o PHASE3_INTERVIEW_T2
                       \o st.job_title \o PHASE3_INTERVIEW_T3 \o prep_tip
                       \o PHASE3_INTERVIEW_T4 \o snippet \o PHASE3_INTERVIEW_T5,
               !.metadata = << <<"agent", PHASE3_INTERVIEW>>,
                               <<"prep_tip", prep_tip>>,
                               <<"timestamp", now>> >>]

PHASE3_GENERIC_TITLE ==
    <<"S","o","f","t","w","a","r","e"," ","E","n","g","i","n","e","e","r">>

PHASE3_GENERIC_DESCRIPTION ==
    <<"S","o","f","t","w","a","r","e"," ","e","n","g","i","n","e","e","r","i","n","g"," ","r",
      "o","l","e"," ","r","e","q","u","i","r","i","n","g"," ","t","e","c","h","n","i","c","a",
      "l"," ","e","x","p","e","r","t","i","s","e",".">>

\* Step 1 of the copy's orchestrate: the AgentState dict it builds
phase3_initial_state(a) ==
    LET known == dict_has(PHASE3_JOB_DESCRIPTIONS, a.job_id)
    IN  [job_id |-> a.job_id,
         candidate_name |-> a.candidate_name,
         candidate_email |-> a.candidate_email,
         status |-> a.status,
         job_title |-> IF known THEN dict_item(PHASE3_JOB_DESCRIPTIONS, a.job_id).title
                       ELSE PHASE3_GENERIC_TITLE,
         job_description |->
             IF known THEN dict_item(PHASE3_JOB_DESCRIPTIONS, a.job_id).description
             ELSE PHASE3_GENERIC_DESCRIPTION,
         output_message |-> << >>,
         metadata |-> << >>]

\* What one invocation comes to when it ends without an exception: the router's
\* decision, the snippet the interview agent fetched, the final state and the
\* value returned
Ran(decision, snippet, st, value) ==
    [next_agent |-> decision, jd_snippet |-> snippet, state |-> st, ret |-> value]

\* orchestrate(...) of the copy with arguments a, steps 1 to 4, the external
\* request not attempted
phase3_orchestrate(a, now) ==
    LET st == phase3_initial_state(a)
        decision == phase3_router_agent(st)
        snippet == phase3_rag_search(st.job_id)
        tip == phase3_generate_prep_tip(st.job_description, a.use_claude, NO_OUTCOME)
        final == IF decision = PHASE3_ASSESSMENT
                 THEN phase3_assessment_agent(st, now)
                 ELSE phase3_interview_agent(st, tip.value, snippet, now)
    IN  Ran(decision, IF decision = PHASE3_ASSESSMENT THEN << >> ELSE snippet, final,
            [returned |-> TRUE, value |-> final.output_message])

\* orchestrate(...) of src/orchestrator.py with arguments a, steps 1 to 4, the
\* external request not attempted
orchestrate(a, now) ==
    LET st == initial_state(a)
        decision == router_agent(st)
        snippet == rag_search(st.job_id)
        tip == generate_prep_tip(st.job_description, a.use_claude, NO_OUTCOME)
        final == IF delegate(decision) = "assessment_agent"
                 THEN assessment_agent(st, now)
                 ELSE interview_agent(st, tip.value, snippet, now)
    IN  Ran(decision, IF delegate(decision) = "assessment_agent" THEN << >> ELSE snippet,
            final, returned(final))

(***************************************************************************)
(* Direct calls of the router and of the tools, as a caller importing the  *)
(* module makes them: the call is drawn in the initial state and one       *)
(* action applies the function called                                      *)
(***************************************************************************)
MaxWords == 2

Words == {
    <<"P","y","t","h","o","n">>,
    <<"S","Q","L">>,
    <<"r","e","a","c","t">>,
    <<"K","u","b","e","r","n","e","t","e","s">>,
    <<"F","A","S","T","A","P","I">>,
    <<"J","a","v","a">>}

SPACE ==
    <<" ">>

\* The words of ws, each followed by a space
RECURSIVE join_words(_)
join_words(ws) == IF ws = << >> THEN << >> ELSE Head(ws) \o SPACE \o join_words(Tail(ws))

\* Job descriptions: the catalog's, the generic one, and every text of at most
\* MaxWords words
Descriptions ==
    {JOB_DESCRIPTIONS_DATA[i][2].description : i \in 1..Len(JOB_DESCRIPTIONS_DATA)}
        \cup {GENERIC_DESCRIPTION}
        \cup {join_words(ws) : ws \in UNION {[1..k -> Words] : k \in 0..MaxWords}}

\* ASSESSMENT with each letter in either case
CaseVariants ==
    {[i \in 1..Len(ASSESSMENT) |->
        IF up[i]
        THEN ASCII_UPPERCASE[CHOOSE j \in 1..Len(ASCII_LOWERCASE) :
                                 ASCII_LOWERCASE[j] = ASSESSMENT[i]]
        ELSE ASSESSMENT[i]] : up \in [1..Len(ASSESSMENT) -> BOOLEAN]}

RouterStatuses == Statuses \cup CaseVariants \cup {
    <<"a","s","s","e","s","s","m","e","n">>,
    <<" ","a","s","s","e","s","s","m","e","n","t">>,
    <<"A","s","s","e","s","s","m","e","n","t"," ">>,
    <<"i","n","t","e","r","v","i","e","w"," ","a","s","s","e","s","s","m","e","n","t">>}

\* Queries: job ids, texts that are no job id, and every text of at most
\* MaxWords words
Queries == JobIds \cup {join_words(ws) : ws \in UNION {[1..k -> Words] : k \in 0..MaxWords}} \cup {
    <<"j","1","2","3">>,
    <<"J","1","2">>,
    <<"s","q","l">>,
    <<"R","e","a","c","t"," ","N","a","t","i","v","e">>,
    <<"K","U","B","E","R","N","E","T","E","S","+","S","Q","L">>,
    << >>}

Roles == {TEST_LINKS_DATA[i][1] : i \in 1..Len(TEST_LINKS_DATA)} \cup {GENERIC_TITLE,
    <<"p","y","t","h","o","n"," ","d","e","v","e","l","o","p","e","r">>,
    << >>}

\* Every way the try block of generate_prep_tip can end
TryOutcomes ==
    {Outcome("import_error", << >>), Outcome("client_error", << >>)} \cup RequestOutcomes

\* The arguments of orchestrate
OrchestrateArgs ==
    {[candidate_name |-> n, candidate_email |-> e, status |-> s, job_id |-> j,
      use_claude |-> u] :
        n \in CandidateNames, e \in CandidateEmails, s \in Statuses, j \in JobIds,
        u \in BOOLEAN}

ToolCalls ==
    {[fn |-> "router_agent", status |-> s] : s \in RouterStatuses}
        \cup {[fn |-> "get_test_link", role |-> r] : r \in Roles}
        \cup {[fn |-> "rag_search", query |-> q] : q \in Queries}
        \cup {[fn |-> "generate_prep_tip", job_description |-> d, use_claude |-> u] :
                 d \in Descriptions, u \in BOOLEAN}
        \cup {[fn |-> "assessment_agent", candidate_name |-> n, job_title |-> r] :
                 n \in CandidateNames, r \in Roles}
        \cup {[fn |-> "orchestrate", args |-> a] : a \in OrchestrateArgs}

Returned(v, outcome) == [done |-> TRUE, raised |-> FALSE, value |-> v, outcome |-> outcome]

ToolInit ==
    /\ TEST_LINKS = TEST_LINKS_DATA
    /\ JOB_DESCRIPTIONS = JOB_DESCRIPTIONS_DATA
    /\ INTERVIEW_TIPS_DB = INTERVIEW_TIPS_DB_DATA
    /\ environ \in ApiKeys
    /\ pc = "idle"
    /\ args = NO_ARGS
    /\ state = initial_state(NO_ARGS)
    /\ next_agent = << >>
    /\ jd_snippet = << >>
    /\ claude = NO_CLAUDE
    /\ ret = NOT_RETURNED
    /\ runs = NO_RUNS
    /\ call \in ToolCalls
    /\ result = NO_RESULT
    /\ frames = NO_FRAMES
    /\ heap = NO_HEAP
    /\ history = NO_HISTORY

CallRouterAgent ==
    /\ call.fn = "router_agent"
    /\ ~result.done
    /\ result' = Returned(router_agent(initial_state([NO_ARGS EXCEPT !.status = call.status])),
                          NO_OUTCOME)
    /\ UNCHANGED <<tables, environ, orch_vars, call, thread_vars, history>>

CallGetTestLink ==
    /\ call.fn = "get_test_link"
    /\ ~result.done
    /\ result' = Returned(get_test_link(call.role), NO_OUTCOME)
    /\ TEST_LINKS' = TEST_LINKS_after_get_test_link(call.role)
    /\ UNCHANGED <<JOB_DESCRIPTIONS, INTERVIEW_TIPS_DB, environ, orch_vars, call,
                   thread_vars, history>>

CallRagSearch ==
    /\ call.fn = "rag_search"
    /\ ~result.done
    /\ result' = Returned(rag_search(call.query), NO_OUTCOME)
    /\ UNCHANGED <<tables, environ, orch_vars, call, thread_vars, history>>

CallGeneratePrepTip ==
    /\ call.fn = "generate_prep_tip"
    /\ ~result.done
    /\ \E outcome \in IF claude_attempted(call.use_claude) THEN TryOutcomes ELSE {NO_OUTCOME} :
           LET tip == generate_prep_tip(call.job_description, call.use_claude, outcome)
           IN  /\ result' = [done |-> TRUE, raised |-> tip.raised, value |-> tip.value,
                              outcome |-> outcome]
               /\ INTERVIEW_TIPS_DB' = INTERVIEW_TIPS_DB_after_generate_prep_tip(
                      call.job_description, call.use_claude, outcome)
    /\ UNCHANGED <<TEST_LINKS, JOB_DESCRIPTIONS, environ, orch_vars, call, thread_vars,
                   history>>

\* assessment_agent(state) called with a state of the caller's making
CallAssessmentAgent ==
    /\ call.fn = "assessment_agent"
    /\ ~result.done
    /\ \E now \in Timestamps :
           result' = Returned(
               assessment_agent([initial_state(NO_ARGS) EXCEPT
                                     !.candidate_name = call.candidate_name,
                                     !.job_title = call.job_title], now),
               NO_OUTCOME)
    /\ TEST_LINKS' = TEST_LINKS_after_get_test_link(call.job_title)
    /\ UNCHANGED <<JOB_DESCRIPTIONS, INTERVIEW_TIPS_DB, environ, orch_vars, call,
                   thread_vars, history>>

\* A caller passes the same arguments to orchestrate of src/orchestrator.py and
\* to orchestrate of the copy, with no external request attempted by either
CallOrchestrateCopies ==
    /\ call.fn = "orchestrate"
    /\ ~result.done
    /\ ~claude_attempted(call.args.use_claude)
    /\ \E now \in Timestamps, phase3_now \in Timestamps :
           result' = Returned([main |-> orchestrate(call.args, now),
                               phase3 |-> phase3_orchestrate(call.args, phase3_now)],
                              NO_OUTCOME)
    /\ UNCHANGED <<tables, environ, orch_vars, call, thread_vars, history>>

ToolNext ==
    \/ CallRouterAgent
    \/ CallGetTestLink
    \/ CallRagSearch
    \/ CallGeneratePrepTip
    \/ CallAssessmentAgent
    \/ CallOrchestrateCopies

ToolSpec == ToolInit /\ [][ToolNext]_vars

(***************************************************************************)
(* Successive direct calls of generate_prep_tip in one process, none with  *)
(* access to the external tier                                             *)
(***************************************************************************)
MaxTipCalls == 3

TipDescriptions == {DESCRIPTION_J123, DESCRIPTION_J456, GENERIC_DESCRIPTION,
    <<"S","Q","L"," ">>,
    <<"F","A","S","T","A","P","I"," ","S","Q","L"," ">>,
    <<"J","a","v","a"," ">>}

\* generate_prep_tip(job_description, use_claude) is called and returns
TipCall ==
    /\ Len(history) < MaxTipCalls
    /\ \E job_description \in TipDescriptions, use_claude \in BOOLEAN :
           /\ ~claude_attempted(use_claude)
           /\ LET tip == generate_prep_tip(job_description, use_claude, NO_OUTCOME)
              IN  history' = Append(history, [job_description |-> job_description,
                                              raised |-> tip.raised,
                                              tip |-> tip.value])
           /\ INTERVIEW_TIPS_DB' = INTERVIEW_TIPS_DB_after_generate_prep_tip(
                  job_description, use_claude, NO_OUTCOME)
    /\ UNCHANGED <<TEST_LINKS, JOB_DESCRIPTIONS, environ, orch_vars, tool_vars, thread_vars>>

TipNext == TipCall

TipSpec == Init /\ [][TipNext]_vars

(***************************************************************************)
(* Several invocations of orchestrate running in threads of one process,   *)
(* the external tier disabled: the steps of the invocations interleave     *)
(***************************************************************************)
Threads == {"t1", "t2"}

ThreadArgs ==
    {[candidate_name |-> n, candidate_email |-> e, status |-> s, job_id |-> j,
      use_claude |-> u] :
        n \in CandidateNames, e \in CandidateEmails,
        s \in {
    <<"A","s","s","e","s","s","m","e","n","t">>,
    <<"I","n","t","e","r","v","i","e","w">>},
        j \in {J456, UNKNOWN}, u \in BOOLEAN}

NO_FRAME == [pc |-> "idle", args |-> NO_ARGS, next_agent |-> << >>, ret |-> NOT_RETURNED]

\* One dict shared by the invocations
state_dict_shared(t) == "t1"

\* The dict the invocation of thread t builds in step 1 and names `state`: the
\* dict display makes a new object in every invocation
state_dict(t) == t

\* What orchestrate returns for the arguments a when it runs alone and does not
\* attempt the external request
orchestrate_alone(a) == orchestrate(a, CHOOSE now \in Timestamps : TRUE).ret

ThreadInit ==
    /\ TEST_LINKS = TEST_LINKS_DATA
    /\ JOB_DESCRIPTIONS = JOB_DESCRIPTIONS_DATA
    /\ INTERVIEW_TIPS_DB = INTERVIEW_TIPS_DB_DATA
    /\ environ \in ApiKeys
    /\ pc = "idle"
    /\ args = NO_ARGS
    /\ state = initial_state(NO_ARGS)
    /\ next_agent = << >>
    /\ jd_snippet = << >>
    /\ claude = NO_CLAUDE
    /\ ret = NOT_RETURNED
    /\ runs = NO_RUNS
    /\ call = NO_CALL
    /\ result = NO_RESULT
    /\ frames = [t \in Threads |-> NO_FRAME]
    /\ heap = [t \in Threads |-> initial_state(NO_ARGS)]
    /\ history = NO_HISTORY

\* Thread t calls orchestrate: step 1 builds the state
ThreadOrchestrate(t) ==
    /\ frames[t].pc = "idle"
    /\ \E a \in ThreadArgs :
           /\ ~claude_attempted(a.use_claude)
           /\ frames' = [frames EXCEPT ![t] = [@ EXCEPT !.pc = "route", !.args = a]]
           /\ heap' = [heap EXCEPT ![state_dict(t)] = initial_state(a)]
    /\ UNCHANGED <<tables, environ, orch_vars, tool_vars, history>>

\* Step 2 in thread t
ThreadRouter(t) ==
    /\ frames[t].pc = "route"
    /\ frames' = [frames EXCEPT ![t] = [@ EXCEPT !.pc = "delegate",
                                         !.next_agent = router_agent(heap[state_dict(t)])]]
    /\ UNCHANGED <<tables, environ, orch_vars, tool_vars, heap, history>>

\* Step 3 in thread t, first branch
ThreadAssessmentAgent(t) ==
    /\ frames[t].pc = "delegate"
    /\ delegate(frames[t].next_agent) = "assessment_agent"
    /\ \E now \in Timestamps :
           heap' = [heap EXCEPT ![state_dict(t)] = assessment_agent(@, now)]
    /\ TEST_LINKS' = TEST_LINKS_after_get_test_link(heap[state_dict(t)].job_title)
    /\ frames' = [frames EXCEPT ![t] = [@ EXCEPT !.pc = "return"]]
    /\ UNCHANGED <<JOB_DESCRIPTIONS, INTERVIEW_TIPS_DB, environ, orch_vars, tool_vars,
                   history>>

\* Step 3 in thread t, second branch; the external request is not attempted
ThreadInterviewAgent(t) ==
    /\ frames[t].pc = "delegate"
    /\ delegate(frames[t].next_agent) = "interview_agent"
    /\ \E now \in Timestamps :
           heap' = [heap EXCEPT ![state_dict(t)] =
                       interview_agent(
                           @, generate_prep_tip(@.job_description, frames[t].args.use_claude,
                                                NO_OUTCOME).value,
                           rag_search(@.job_id), now)]
    /\ INTERVIEW_TIPS_DB' = INTERVIEW_TIPS_DB_after_generate_prep_tip(
           heap[state_dict(t)].job_description, frames[t].args.use_claude, NO_OUTCOME)
    /\ frames' = [frames EXCEPT ![t] = [@ EXCEPT !.pc = "return"]]
    /\ UNCHANGED <<TEST_LINKS, JOB_DESCRIPTIONS, environ, orch_vars, tool_vars, history>>

\* Step 4 in thread t
ThreadReturn(t) ==
    /\ frames[t].pc = "return"
    /\ frames' = [frames EXCEPT ![t] = [@ EXCEPT !.pc = "done",
                                         !.ret = returned(heap[state_dict(t)])]]
    /\ UNCHANGED <<tables, environ, orch_vars, tool_vars, heap, history>>

ThreadNext ==
    \E t \in Threads :
        \/ ThreadOrchestrate(t)
        \/ ThreadRouter(t)
        \/ ThreadAssessmentAgent(t)
        \/ ThreadInterviewAgent(t)
        \/ ThreadReturn(t)

ThreadSpec == ThreadInit /\ [][ThreadNext]_vars

(***************************************************************************)
(* Properties                                                              *)
(***************************************************************************)
\* Character c is character l of a lower-case text, in either case
same_letter(c, l) ==
    \/ c = l
    \/ \E j \in 1..Len(ASCII_LOWERCASE) : ASCII_LOWERCASE[j] = l /\ ASCII_UPPERCASE[j] = c

\* Text s is the lower-case text l up to the case of its letters
equal_ignoring_case(s, l) ==
    Len(s) = Len(l) /\ \A i \in 1..Len(l) : same_letter(s[i], l[i])

\* The lower-case text l occurs in s up to the case of its letters
occurs_ignoring_case(s, l) ==
    \E k \in 0..(Len(s) - Len(l)) : \A i \in 1..Len(l) : same_letter(s[k + i], l[i])

\* The value of key k in the dict d
value_of(d, k) == d[CHOOSE i \in 1..Len(d) : d[i][1] = k][2]

RouterCalled == call.fn = "router_agent" /\ result.done

\* C1: router_agent returns "assessment" exactly for the statuses that are
\* "assessment" up to case, "interview" for every other status (the empty
\* string, "Interview", "INTERVIEW", "offer"), and never raises
C1_RouterCaseInsensitive ==
    RouterCalled =>
        /\ ~result.raised
        /\ result.value \in {ASSESSMENT, INTERVIEW}
        /\ result.value = ASSESSMENT <=> equal_ignoring_case(call.status, ASSESSMENT)
        /\ call.status \in {<< >>,
                            <<"I","n","t","e","r","v","i","e","w">>,
                            <<"I","N","T","E","R","V","I","E","W">>,
                            <<"o","f","f","e","r">>}
              => result.value = INTERVIEW

C1_Witness ==
    /\ RouterCalled
    /\ call.status = <<"A","S","S","E","S","S","M","E","N","T">>
    /\ result.value = ASSESSMENT

InCatalog(job_id) == \E i \in 1..Len(JOB_DESCRIPTIONS_DATA) : JOB_DESCRIPTIONS_DATA[i][1] = job_id

\* C2: for a catalog job id the message orchestrate returns contains the job's
\* title, and on the assessment path the link TEST_LINKS maps to that title and
\* not the general link
C2_MessageHasTitleAndLink ==
    (ret.returned /\ InCatalog(args.job_id)) =>
        LET title == value_of(JOB_DESCRIPTIONS_DATA, args.job_id).title
        IN  /\ contains(ret.value, title)
            /\ equal_ignoring_case(args.status, ASSESSMENT) =>
                   /\ contains(ret.value, value_of(TEST_LINKS_DATA, title))
                   /\ ~contains(ret.value, GENERAL_LINK)

C2_Witness ==
    /\ ret.returned
    /\ args.job_id = J123
    /\ args.status = <<"A","s","s","e","s","s","m","e","n","t">>
    /\ contains(ret.value, TITLE_PYTHON)
    /\ contains(ret.value, LINK_PYTHON)

Resolved == pc \notin {"idle"}

\* C3: once orchestrate has resolved the job, job_title and job_description are
\* non-empty; they are the catalog entry of a catalog job id and the generic
\* title and description of any other, and no exception is raised
C3_JobResolved ==
    Resolved =>
        /\ state.job_title # << >>
        /\ state.job_description # << >>
        /\ pc # "raised"
        /\ IF InCatalog(args.job_id)
           THEN /\ state.job_title = value_of(JOB_DESCRIPTIONS_DATA, args.job_id).title
                /\ state.job_description =
                       value_of(JOB_DESCRIPTIONS_DATA, args.job_id).description
           ELSE /\ state.job_title = GENERIC_TITLE
                /\ state.job_description = GENERIC_DESCRIPTION

C3_Witness ==
    /\ pc = "done"
    /\ args.job_id = UNKNOWN
    /\ state.job_title = GENERIC_TITLE
    /\ state.job_description = GENERIC_DESCRIPTION

TipCalled == call.fn = "generate_prep_tip" /\ result.done

\* C4: generate_prep_tip raises nothing and returns a non-empty string, whatever
\* the description, the flag, the credential and the outcome of the external
\* call, a response with empty or whitespace-only text included
C4_TipNeverEmpty ==
    TipCalled => ~result.raised /\ result.value # << >>

FailureKinds == {"import_error", "client_error", "request_error", "malformed_response"}

\* C5: when the external tier is attempted and fails (import, client
\* construction, request, reading the response), generate_prep_tip raises
\* nothing and returns what it returns for the same description with the
\* external tier disabled
C5_FailureFallsBack ==
    (TipCalled /\ result.outcome.kind \in FailureKinds) =>
        /\ ~result.raised
        /\ result.value = generate_prep_tip(call.job_description, FALSE, NO_OUTCOME).value

C5_Witness ==
    /\ TipCalled
    /\ result.outcome.kind = "import_error"
    /\ call.use_claude
    /\ call.job_description = DESCRIPTION_J789
    /\ result.value = TIP_REACT

RagCalled == call.fn = "rag_search" /\ result.done

\* C6: for a catalog job id rag_search returns the title, then the description:
\* cut to its first 150 characters and followed by "..." when it is longer than
\* 150 characters, unmodified and without the marker otherwise
C6_SnippetMarkedOnlyWhenCut ==
    (RagCalled /\ InCatalog(call.query)) =>
        LET jd == value_of(JOB_DESCRIPTIONS_DATA, call.query)
        IN  result.value =
                jd.title \o COLON_SPACE \o
                    (IF Len(jd.description) > 150
                     THEN SubSeq(jd.description, 1, 150) \o ELLIPSIS
                     ELSE jd.description)

\* The keyword order the tip generation is said to scan in
ScanOrder == <<KW_PYTHON, KW_SQL, KW_REACT, KW_KUBERNETES, KW_FASTAPI>>

\* The keywords of ScanOrder, by position, that occur in text d up to case
Hits(d) == {i \in 1..Len(ScanOrder) : occurs_ignoring_case(d, ScanOrder[i])}

First(S) == CHOOSE i \in S : \A j \in S : i <= j

\* C8: without the external tier generate_prep_tip returns the corpus tip of the
\* first of python, sql, react, kubernetes, fastapi that occurs in the
\* lower-cased description, whatever later keyword occurs too, and the generic
\* preparation message when none occurs
C8_FirstKeywordWins ==
    (TipCalled /\ result.outcome = NO_OUTCOME) =>
        LET hits == Hits(call.job_description)
        IN  /\ ~result.raised
            /\ result.value =
                   IF hits = {} THEN GENERIC_TIP
                   ELSE value_of(INTERVIEW_TIPS_DB_DATA, ScanOrder[First(hits)])

C8_Witness ==
    /\ TipCalled
    /\ result.outcome = NO_OUTCOME
    /\ call.job_description = <<"F","A","S","T","A","P","I"," ","S","Q","L"," ">>
    /\ result.value = TIP_SQL

\* Scenario D has returned: status "Interview", job "J456", no credential
ScenarioD ==
    /\ pc = "done"
    /\ args.status = <<"I","n","t","e","r","v","i","e","w">>
    /\ args.job_id = J456
    /\ ~environ.set

\* C7 as stated: in scenario D the prep tip in the message and in the metadata
\* is INTERVIEW_TIPS_DB["sql"]
C7_ScenarioDTipIsSql ==
    ScenarioD =>
        /\ value_of(state.metadata, "prep_tip") = TIP_SQL
        /\ contains(ret.value, TIP_SQL)

\* C7, amended: in scenario D the prep tip in the message and in the metadata
\* is INTERVIEW_TIPS_DB["python"]: the description of J456 names Python as
\* well as SQL, and python is scanned first
C7_ScenarioDTipIsPython ==
    ScenarioD =>
        /\ value_of(state.metadata, "prep_tip") = TIP_PYTHON
        /\ contains(ret.value, TIP_PYTHON)
        /\ ~contains(ret.value, TIP_SQL)

C7_Witness ==
    /\ ScenarioD
    /\ ret.returned
    /\ value_of(state.metadata, "agent") = INTERVIEW
    /\ value_of(state.metadata, "prep_tip") = TIP_PYTHON

\* C9: every invocation of orchestrate, once started, completes and returns a
\* non-empty message, given that a request sent to the external generator
\* comes back with a response or a failure
C9_InvocationCompletes ==
    (pc = "route") ~> (pc = "done" /\ ret.returned /\ ret.value # << >>)

C9_Witness ==
    /\ pc = "done"
    /\ claude.requests = 1
    /\ ret.returned
    /\ ret.value # << >>

\* C10: an invocation of orchestrate sends at most one request to the external
\* generator, and sends one only on the interview path, with use_claude true
\* and with the ANTHROPIC_API_KEY credential set
C10_AtMostOneRequest ==
    /\ claude.requests <= 1
    /\ claude.requests = 1 =>
           /\ ~equal_ignoring_case(args.status, ASSESSMENT)
           /\ args.use_claude
           /\ environ.set

C10_Witness ==
    /\ pc = "done"
    /\ claude.requests = 1
    /\ ~claude.in_flight
    /\ value_of(state.metadata, "agent") = INTERVIEW

\* C12: whatever invocations of orchestrate have run, on either path and with
\* any outcome of the external request, TEST_LINKS, JOB_DESCRIPTIONS and
\* INTERVIEW_TIPS_DB hold the values the module gave them when it was loaded
C12_TablesKeepTheirValues ==
    /\ TEST_LINKS = TEST_LINKS_DATA
    /\ JOB_DESCRIPTIONS = JOB_DESCRIPTIONS_DATA
    /\ INTERVIEW_TIPS_DB = INTERVIEW_TIPS_DB_DATA

\* An assessment invitation for a title TEST_LINKS does not map has been
\* returned, and the table has no entry for the title
C12_Witness ==
    /\ pc = "done"
    /\ runs.assessment_agent = 1
    /\ state.job_title = GENERIC_TITLE
    /\ contains(ret.value, GENERAL_LINK)
    /\ ~dict_has(TEST_LINKS, GENERIC_TITLE)
    /\ TEST_LINKS = TEST_LINKS_DATA

\* The router and the agents have run this often when orchestrate is at pc
RunsAt(position) ==
    [router_agent |-> IF position \in {"idle", "route"} THEN 0 ELSE 1,
     agents       |-> IF position \in {"idle", "route", "delegate"} THEN 0 ELSE 1]

\* A step of a routed invocation leaves the router's decision as it is
DecisionKept == pc \in {"delegate", "claude", "return"} => next_agent' = next_agent

\* C15: in an invocation of orchestrate the router runs once, one agent runs,
\* once, and it is the one the router decided on: metadata["agent"] is the
\* decision, the other agent does not run, and the decision stays as it is
\* until orchestrate returns
C15_OneDecisionOneAgent ==
    /\ [](/\ runs.router_agent = RunsAt(pc).router_agent
          /\ runs.assessment_agent + runs.interview_agent = RunsAt(pc).agents
          /\ pc \in {"claude", "return", "done", "raised"} =>
                 /\ next_agent \in {ASSESSMENT, INTERVIEW}
                 /\ runs.assessment_agent = 1 <=> next_agent = ASSESSMENT
                 /\ runs.interview_agent = 1 <=> next_agent = INTERVIEW
          /\ pc \in {"return", "done"} => value_of(state.metadata, "agent") = next_agent)
    /\ [][DecisionKept]_vars

C15_Witness ==
    /\ pc = "done"
    /\ args.status = <<"o","f","f","e","r">>
    /\ next_agent = INTERVIEW
    /\ runs = [router_agent |-> 1, assessment_agent |-> 0, interview_agent |-> 1]
    /\ value_of(state.metadata, "agent") = INTERVIEW

\* The fields of AgentState orchestrate fills in before it calls the router
InputFields ==
    {"job_id", "candidate_name", "candidate_email", "status", "job_title", "job_description"}

\* A step of the router or of an agent leaves the input fields as they are
InputsKept ==
    pc \in {"route", "delegate", "claude", "return"} =>
        \A f \in InputFields : state'[f] = state[f]

\* A step that changes state[f] of a started invocation is a step of an agent
\* and finds state[f] empty
WrittenOnce(f) ==
    (pc \in {"route", "delegate", "claude", "return"} /\ state'[f] # state[f]) =>
        /\ pc \in {"delegate", "claude"}
        /\ state[f] = << >>
        /\ pc' = "return"

\* C18: from the call of the router to the return of orchestrate job_id,
\* candidate_name, candidate_email, status, job_title and job_description keep
\* the values orchestrate gave them; output_message and metadata are written
\* once each, by the agent, and are there when orchestrate returns
C18_OnlyMessageAndMetadataWritten ==
    /\ [](pc # "idle" => \A f \in InputFields : state[f] = initial_state(args)[f])
    /\ [](pc \in {"return", "done"} => state.output_message # << >> /\ state.metadata # << >>)
    /\ [](pc \in {"route", "delegate", "claude"} =>
              state.output_message = << >> /\ state.metadata = << >>)
    /\ [][InputsKept /\ WrittenOnce("output_message") /\ WrittenOnce("metadata")]_vars

C18_Witness ==
    /\ pc = "done"
    /\ runs.interview_agent = 1
    /\ args.status = <<"I","N","T","E","R","V","I","E","W">>
    /\ state.status = args.status
    /\ state.job_id = UNKNOWN
    /\ state.job_description = GENERIC_DESCRIPTION
    /\ state.output_message = ret.value
    /\ state.metadata # << >>

\* Text s is the title of catalog entry jd, ": " and what follows
CatalogForm(s, jd) ==
    LET head == jd.title \o COLON_SPACE
    IN  /\ Len(s) >= Len(head)
        /\ SubSeq(s, 1, Len(head)) = head
        /\ \E n \in 0..Len(jd.description) :
               /\ Len(s) >= Len(head) + n
               /\ SubSeq(s, Len(head) + 1, Len(head) + n) = SubSeq(jd.description, 1, n)
               /\ n = Len(jd.description) \/ n = SNIPPET_CHARS

\* Text s is a tip of the corpus or the message for no match
TipForm(s) ==
    \/ s = NO_TIPS_FOUND
    \/ \E i \in 1..Len(INTERVIEW_TIPS_DB_DATA) : s = INTERVIEW_TIPS_DB_DATA[i][2]

\* interview_agent has called rag_search in this invocation
SnippetFetched == runs.interview_agent = 1 /\ pc \in {"claude", "return", "done", "raised"}

\* C19: on the interview path step 1 of orchestrate and rag_search agree on
\* whether the job id is known: the snippet is a catalog title with its
\* description exactly when job_title and job_description are that catalog
\* entry, and a tip or the no-tips message exactly when they are the generic pair
C19_ResolutionAndSnippetAgree ==
    SnippetFetched =>
        /\ \A i \in 1..Len(JOB_DESCRIPTIONS_DATA) :
               CatalogForm(jd_snippet, JOB_DESCRIPTIONS_DATA[i][2])
                   <=> /\ state.job_title = JOB_DESCRIPTIONS_DATA[i][2].title
                       /\ state.job_description = JOB_DESCRIPTIONS_DATA[i][2].description
        /\ TipForm(jd_snippet)
               <=> /\ state.job_title = GENERIC_TITLE
                   /\ state.job_description = GENERIC_DESCRIPTION
        /\ TipForm(jd_snippet)
               <=> ~\E i \in 1..Len(JOB_DESCRIPTIONS_DATA) :
                        CatalogForm(jd_snippet, JOB_DESCRIPTIONS_DATA[i][2])

C19_Witness ==
    /\ SnippetFetched
    /\ pc = "done"
    /\ state.job_id = <<"F","a","s","t","A","P","I","-","P","y","t","h","o","n","-","7">>
    /\ state.job_title = GENERIC_TITLE
    /\ jd_snippet = TIP_PYTHON
    /\ contains(ret.value, TIP_PYTHON)

\* The keys of the tip corpus in the order the corpus declares them
CorpusOrder == <<KW_PYTHON, KW_FASTAPI, KW_SQL, KW_REACT, KW_KUBERNETES>>

\* The keys of CorpusOrder, by position, that occur in text q up to case
CorpusHits(q) == {i \in 1..Len(CorpusOrder) : occurs_ignoring_case(q, CorpusOrder[i])}

\* C16: for a query that is no catalog job id rag_search returns the tip of the
\* first of python, fastapi, sql, react, kubernetes that occurs in the
\* lower-cased query, the "No specific tips found" message when none occurs,
\* and never raises
C16_FirstCorpusKeyWins ==
    (RagCalled /\ ~InCatalog(call.query)) =>
        LET hits == CorpusHits(call.query)
        IN  /\ ~result.raised
            /\ result.value =
                   IF hits = {} THEN NO_TIPS_FOUND
                   ELSE value_of(INTERVIEW_TIPS_DB_DATA, CorpusOrder[First(hits)])

C16_Witness ==
    /\ RagCalled
    /\ call.query = <<"S","Q","L"," ","F","A","S","T","A","P","I"," ">>
    /\ result.value = TIP_FASTAPI

AssessmentCalled == call.fn = "assessment_agent" /\ result.done

\* The link the assessment invitation for a title has to carry
LinkOf(title) ==
    IF \E i \in 1..Len(TEST_LINKS_DATA) : TEST_LINKS_DATA[i][1] = title
    THEN value_of(TEST_LINKS_DATA, title)
    ELSE
    <<"h","t","t","p","s",":","/","/","a","s","s","e","s","s",".","e","x","a","m","p","l","e",
      ".","c","o","m","/","g","e","n","e","r","a","l">>

\* The line of the invitation that carries the link
LinkLine(link) ==
    <<"A","s","s","e","s","s","m","e","n","t"," ","L","i","n","k",":"," ">>
        \o link \o
    <<"\n">>

\* The line of the invitation that carries the time limit
TimeLimitLine ==
    <<"T","i","m","e"," ","L","i","m","i","t",":"," ","6","0"," ","m","i","n","u","t","e","s",
      "\n">>

\* C17: for every job title assessment_agent ends without an error, uses the
\* link TEST_LINKS maps the title to or the general link when it maps none,
\* records that link in metadata["test_link"] and renders the same link in the
\* message, with the time limit of 60 minutes
C17_AssessmentLinkAlwaysResolved ==
    AssessmentCalled =>
        LET link == LinkOf(call.job_title)
        IN  /\ ~result.raised
            /\ value_of(result.value.metadata, "test_link") = link
            /\ contains(result.value.output_message, LinkLine(link))
            /\ contains(result.value.output_message, TimeLimitLine)

C17_Witness ==
    /\ AssessmentCalled
    /\ call.job_title = <<"p","y","t","h","o","n"," ","d","e","v","e","l","o","p","e","r">>
    /\ value_of(result.value.metadata, "test_link") = GENERAL_LINK
    /\ contains(result.value.output_message, GENERAL_LINK)

\* C14: when orchestrate has returned, its caller holds the rendered message
\* and the metadata the agent produced in the invocation (the agent's name,
\* the link or the tip, the timestamp)
C14_CallerReceivesMetadata ==
    pc = "done" =>
        /\ ret.value = state.output_message
        /\ "metadata" \in DOMAIN ret
        /\ ret.metadata = state.metadata

\* C13: without access to the external tier any two calls of generate_prep_tip
\* with the same job description return the same tip, whatever calls were made
\* before and between them
C13_SameDescriptionSameTip ==
    \A i, j \in 1..Len(history) :
        /\ ~history[i].raised
        /\ history[i].job_description = history[j].job_description
               => history[i].tip = history[j].tip

C13_Witness ==
    /\ Len(history) = 3
    /\ history[1].job_description = DESCRIPTION_J456
    /\ history[2].job_description = <<"S","Q","L"," ">>
    /\ history[3].job_description = DESCRIPTION_J456
    /\ history[1].tip = TIP_PYTHON
    /\ history[2].tip = TIP_SQL
    /\ history[3].tip = TIP_PYTHON

\* C11: however the steps of the invocations interleave, with the external
\* tier disabled each invocation returns the message it returns when it runs
\* alone with its arguments, and the state it works on holds its own
\* arguments, its own message and its own metadata, never another's
C11_InvocationsIndependent ==
    \A t \in Threads :
        LET frame == frames[t]
            st == heap[state_dict(t)]
        IN  /\ frame.pc # "idle" =>
                   \A f \in InputFields : st[f] = initial_state(frame.args)[f]
            /\ frame.pc \in {"route", "delegate"} =>
                   st.output_message = << >> /\ st.metadata = << >>
            /\ frame.pc \in {"return", "done"} =>
                   LET alone == orchestrate_alone(frame.args)
                   IN  /\ st.output_message = alone.value
                       /\ value_of(st.metadata, "agent") = frame.next_agent
                       /\ frame.pc = "done" => frame.ret = alone

\* Both invocations are under way at once, each with its message rendered and
\* not yet returned: an invitation for Sarah Johnson in one thread, interview
\* preparation for Bob in the other
C11_Witness ==
    /\ frames["t1"].pc = "return"
    /\ frames["t2"].pc = "return"
    /\ frames["t1"].args.candidate_name = <<"S","a","r","a","h"," ","J","o","h","n","s","o",
                                            "n">>
    /\ frames["t1"].next_agent = ASSESSMENT
    /\ frames["t2"].args.candidate_name = <<"B","o","b">>
    /\ frames["t2"].next_agent = INTERVIEW
    /\ heap[state_dict("t1")].output_message = orchestrate_alone(frames["t1"].args).value
    /\ heap[state_dict("t2")].output_message = orchestrate_alone(frames["t2"].args).value
    /\ heap[state_dict("t1")].output_message # heap[state_dict("t2")].output_message

OrchestrateCalled == call.fn = "orchestrate" /\ result.done

\* The decorations of the message templates: a bullet or a pictograph with the
\* space that sets it off from the text
Decorations == {
    <<"→"," ">>,
    <<" ","U+1F3AF">>,
    <<"U+1F4DD"," ">>,
    <<"⏰"," ">>,
    <<"U+1F4A1"," ">>,
    <<" ","U+1F31F">>,
    <<"U+1F4C5"," ">>,
    <<"U+1F4CC"," ">>}

\* Character i of s belongs to a decoration
Decorates(s, i) ==
    \/ i < Len(s) /\ <<s[i], s[i + 1]>> \in Decorations
    \/ i > 1 /\ <<s[i - 1], s[i]>> \in Decorations

\* The text s without its decorations
Undecorated(s) ==
    LET kept == SelectSeq([i \in 1..Len(s) |-> i], LAMBDA i : ~Decorates(s, i))
    IN  [k \in 1..Len(kept) |-> s[kept[k]]]

\* The metadata without the timestamp
Timeless(metadata) == SelectSeq(metadata, LAMBDA item : item[1] # "timestamp")

\* C20: given the same arguments and no attempt at the external request, the
\* orchestrate of src/orchestrator.py and of the copy in phase3_orchestration
\* choose the same agent, resolve the same title and description, use the same
\* link, snippet and tip, store the same metadata but for the timestamp, and
\* return messages that are equal once the templates' decorations are left out
C20_CopiesDecideAlike ==
    OrchestrateCalled =>
        LET main == result.value.main
            phase3 == result.value.phase3
        IN  /\ phase3.next_agent = main.next_agent
            /\ phase3.state.job_title = main.state.job_title
            /\ phase3.state.job_description = main.state.job_description
            /\ phase3.jd_snippet = main.jd_snippet
            /\ Timeless(phase3.state.metadata) = Timeless(main.state.metadata)
            /\ Len(phase3.state.metadata) = Len(main.state.metadata)
            /\ Undecorated(phase3.ret.value) = Undecorated(main.ret.value)

C20_Witness ==
    /\ OrchestrateCalled
    /\ call.args.status = <<"I","n","t","e","r","v","i","e","w">>
    /\ call.args.job_id = J456
    /\ result.value.main.next_agent = INTERVIEW
    /\ result.value.phase3.next_agent = INTERVIEW
    /\ value_of(result.value.phase3.state.metadata, "prep_tip") = TIP_PYTHON
    /\ contains(result.value.phase3.ret.value, TIP_PYTHON)
    /\ result.value.phase3.ret.value # result.value.main.ret.value

\* The default of INTERVIEW_TIPS_DB.get in generate_prep_tip is what the call
\* returned, or is part of a message an orchestrate returned
DefaultTipShown ==
    \/ TipCalled /\ result.value = REVIEW_CORE_CONCEPTS
    \/ OrchestrateCalled /\ contains(result.value.main.ret.value, REVIEW_CORE_CONCEPTS)

====
